---- MODULE Spec2Model ----
(***************************************************************************)
(* Model of the thread-sharing input selector                             *)
(* (gst-plugin-threadshare/src/inputselector.rs).                         *)
(*                                                                         *)
(* State: the element's State (active_sinkpad, switched_pad), its Pads    *)
(* registry (pad_serial, sink_pads), one InputSelectorPadSinkHandlerInner *)
(* per sink pad, the sticky store of each sink pad, the position of each  *)
(* sink pad's streaming task inside handle_item, the call the application *)
(* thread is in, the position of a latency query on the src pad, and the  *)
(* running time of the pipeline.                                           *)
(*                                                                         *)
(* A Mutex critical section is one action.  A step of handle_item ends at *)
(* a suspension point (the wait, a push to the src pad) or at its return. *)
(***************************************************************************)
EXTENDS Integers, Sequences, FiniteSets, TLC

\* ---------------------------------------------------------------- bounds
MaxSerial == 2      \* pads ever requested
MaxSinkPads == 2    \* pads in the registry at one time
MaxInFlight == 1    \* streaming tasks inside handle_item at one time
MaxTime == 2        \* last running time and last buffer pts
MaxSegStart == 1    \* last start of a time segment
MaxLatency == 1     \* last latency a peer reports
MaxBusy == 2        \* threads inside a handler at one time, lock by lock
MaxList == 3        \* buffers of the longest buffer list
MaxCallers == 2     \* threads calling guarded operations

\* ------------------------------------------------------------- constants
NoPad == 0
NoTime == -1

PadIds == 1..MaxSerial
PadArgs == {NoPad} \cup PadIds
PtsValues == {NoTime} \cup (0..MaxTime)
Latencies == 0..MaxLatency
FlowRets == {"Ok", "Eos"}

\* -------------------------------------------------------------- segments
SegNone == [format |-> "none", start |-> 0]
SegBytes == [format |-> "bytes", start |-> 0]
TimeSegments == {[format |-> "time", start |-> s] : s \in 1..MaxSegStart}

\* segment.downcast_ref::<gst::format::Time>() succeeds
is_time_segment(seg) == seg.format = "time"

\* gst::Segment::to_running_time for rate 1, base 0, no stop:
\* a position that is none or before start has no running time.
to_running_time(seg, pts) ==
    IF pts = NoTime \/ pts < seg.start THEN NoTime ELSE pts - seg.start

\* ---------------------------------------------------------------- events
SegmentEvent(seg) == [type |-> "segment", segment |-> seg]
CapsEvent == [type |-> "caps", segment |-> SegNone]
GapEvent == [type |-> "gap", segment |-> SegNone]
TimedEvents == {SegmentEvent(s) : s \in TimeSegments} \cup {GapEvent}
UntimedEvents == {SegmentEvent(SegBytes), CapsEvent}

is_sticky(event) == event.type \in {"segment", "caps"}

\* The pad keeps one sticky event per type, in the order of first arrival.
store_sticky(store, type) ==
    IF \E i \in 1..Len(store) : store[i] = type
    THEN store
    ELSE Append(store, type)

VARIABLES
    active_sinkpad,   \* State.active_sinkpad: NoPad or a pad identity
    switched_pad,     \* State.switched_pad
    pad_serial,       \* Pads.pad_serial
    sink_pads,        \* keys of Pads.sink_pads
    inner,            \* pad -> InputSelectorPadSinkHandlerInner
    sticky,           \* pad -> sticky event types stored on the pad
    task,             \* pad -> position and locals of handle_item
    ctl,              \* application thread: the call it is in
    query,            \* latency query on the src pad
    running_time,     \* get_current_running_time(): NoTime or a time
    orphan,           \* history: the active pad was released
    selected,         \* history: pad chosen by set_active, no buffer pushed yet
    locks,            \* Mutex -> the thread that holds its guard, or "none"
    flush,            \* pad -> position of the thread handling a flush-start
    app,              \* application thread: its position inside a call
    list,             \* pad -> position and results of sink_chain_list
    panicked,         \* the AtomicBool handed to panic_to_error
    guarded           \* caller -> position and locals inside panic_to_error

\* The threads' positions around the Mutexes, where a specification follows
\* each lock() and each drop of a guard as a step of its own.
lockvars == <<locks, flush, app>>

\* The state of the panic guard.
panicvars == <<panicked, guarded>>

vars == <<active_sinkpad, switched_pad, pad_serial, sink_pads, inner, sticky,
          task, ctl, query, running_time, orphan, selected, lockvars, list,
          panicvars>>

\* ------------------------------------------------------- initial values
\* InputSelectorPadSinkHandlerInner::default.  abort_handle is "none", or
\* the handle of the wait in progress ("live"), or of a wait that is over
\* ("dead").
InnerDefault == [segment |-> SegNone, send_sticky |-> TRUE, abort_handle |-> "none"]

\* A streaming task outside handle_item.
IdleTask ==
    [pc |-> "idle", is_active |-> FALSE, switched_pad |-> FALSE,
     stickies |-> <<>>, sent |-> 0, out |-> <<>>, rtime |-> NoTime, deadline |-> NoTime,
     aborted |-> FALSE, selected |-> FALSE, discont |-> FALSE,
     refused |-> FALSE, ret |-> "None", fwd |-> "none"]

CtlIdle == [op |-> "idle", pad |-> NoPad, old_active |-> NoPad, old_switched |-> FALSE]

QueryIdle ==
    [pc |-> "idle", sinkpad |-> NoPad, answered |-> FALSE,
     peer_live |-> FALSE, peer_min |-> 0, peer_max |-> 0,
     ret |-> FALSE, live |-> FALSE, min |-> 0, max |-> 0]

\* Threads: the application thread, the thread of a query on the src pad,
\* the streaming task of a sink pad, the thread that brings a flush-start
\* to a sink pad.
NoThread == [kind |-> "none", pad |-> NoPad]
AppThread == [kind |-> "app", pad |-> NoPad]
QueryThread == [kind |-> "query", pad |-> NoPad]
TaskThread(p) == [kind |-> "task", pad |-> p]
FlushThread(p) == [kind |-> "flush", pad |-> p]

\* InputSelector.state, InputSelector.pads and the Mutex of each pad's
\* InputSelectorPadSinkHandlerInner, all unlocked.
LocksFree ==
    [state |-> NoThread, pads |-> NoThread, inner |-> [p \in PadIds |-> NoThread]]

AppIdle == [pc |-> "idle", op |-> "idle", pad |-> NoPad]

\* The threads that call guarded operations, what a guarded body returns
\* and the fallback ($ret) its caller hands to panic_to_error.
Callers == 1..MaxCallers
Fallback == "Fallback"
BodyRets == {"Ok", "NotOk", Fallback}

\* A caller outside panic_to_error: ran says that the body was executed,
\* failed that it panicked, posted that an error message was posted.
GuardIdle ==
    [pc |-> "idle", ran |-> FALSE, failed |-> FALSE, posted |-> FALSE,
     body |-> "None", ret |-> "None"]

\* A pad outside sink_chain_list: rets are the results of the handle_item
\* calls so far, pushed the buffers of the list handed to the src pad.
ListIdle == [pc |-> "idle", len |-> 0, rets |-> <<>>, pushed |-> <<>>, ret |-> "None"]

\* State::default, Pads::default; the element may or may not have a clock.
Init ==
    /\ active_sinkpad = NoPad
    /\ switched_pad = TRUE
    /\ pad_serial = 0
    /\ sink_pads = {}
    /\ inner = [p \in PadIds |-> InnerDefault]
    /\ sticky = [p \in PadIds |-> <<>>]
    /\ task = [p \in PadIds |-> IdleTask]
    /\ ctl = CtlIdle
    /\ query = QueryIdle
    /\ running_time \in {NoTime, 0}
    /\ orphan = "no"
    /\ selected = NoPad
    /\ locks = LocksFree
    /\ flush = [p \in PadIds |-> "idle"]
    /\ list = [p \in PadIds |-> ListIdle]
    /\ panicked = FALSE
    /\ guarded = [c \in Callers |-> GuardIdle]
    /\ app = AppIdle

\* The element has no clock: get_current_running_time() is none.
InitNoClock == Init /\ running_time = NoTime

\* ----------------------------------------------------------------- locks
\* self.state is held by the application thread inside set_property,
\* request_new_pad and unprepare, and by src_query while it reads.
StateLockOwner ==
    IF ctl.op \in {"set_property", "request_new_pad", "unprepare"} THEN "ctl"
    ELSE IF query.pc \in {"locked", "peer_locked"} THEN "query"
    ELSE "none"

\* self.pads is held inside set_property, request_new_pad and release_pad.
PadsLockOwner ==
    IF ctl.op \in {"set_property", "request_new_pad", "release_pad"} THEN "ctl"
    ELSE "none"

\* ------------------------------------------------------------ handle_item
InFlight == {q \in PadIds : task[q].pc # "idle"}

\* line 183: the buffer is pushed iff the snapshot found the pad active.
forwards_reread(p, t) == active_sinkpad = p

forwards(p, t) == t.is_active

\* The call returns: its result, and what it pushed as its buffer
\* ("dropped", "plain", "discont"), with the flag the buffer arrived with.
Returned(ret, fwd, discont) ==
    [IdleTask EXCEPT !.pc = "ret", !.ret = ret, !.fwd = fwd, !.discont = discont]

\* lines 175-194 after the wait: an inactive pad's call returns Ok, an
\* active pad's call goes on to push its stickies and then its buffer.
Proceed(p, t) ==
    IF ~forwards(p, t) THEN Returned("Ok", "dropped", FALSE)
    ELSE [t EXCEPT !.pc = IF t.sent < Len(t.stickies) THEN "stickies" ELSE "push",
                   !.deadline = NoTime]

\* line 176: sync_fut.await? of an aborted Abortable is Err(Flushing)
Flushed == Returned("Flushing", "dropped", FALSE)

\* The handle stored for a wait that is over refers to a finished future.
HandleAfterWait(handle) == IF handle = "live" THEN "dead" ELSE handle

\* line 157
owes_stickies(send_sticky, switched) == send_sticky \/ switched

\* lines 149-151: a new wait stores its handle over the one that was there
handle_after_snapshot_kept(has_sync, handle) ==
    IF has_sync /\ handle = "none" THEN "live" ELSE handle

handle_after_snapshot(has_sync, handle) == IF has_sync THEN "live" ELSE handle

\* lines 139-173: what the critical section of handle_item reads and writes.
Snapshot(p, pts) ==
    /\ LET segment == inner[p].segment
           has_sync == is_time_segment(segment)
           rtime == IF has_sync THEN to_running_time(segment, pts) ELSE NoTime
           is_active == active_sinkpad = p
           collect == is_active /\ owes_stickies(inner[p].send_sticky, switched_pad)
           t == [IdleTask EXCEPT
                 !.pc = "sync", !.is_active = is_active,
                 !.switched_pad = switched_pad,
                 !.stickies = IF collect THEN sticky[p] ELSE <<>>,
                 !.rtime = rtime, !.selected = (selected = p)]
       IN /\ inner' = [inner EXCEPT
                 ![p].abort_handle = handle_after_snapshot(has_sync, @),
                 ![p].send_sticky = IF collect THEN FALSE ELSE @]
          /\ switched_pad' = IF collect THEN FALSE ELSE switched_pad
          /\ task' = [task EXCEPT ![p] = IF has_sync THEN t ELSE Proceed(p, t)]
    /\ UNCHANGED <<active_sinkpad, pad_serial, sink_pads, sticky, ctl, query,
                   running_time, orphan, selected>>

\* lines 139-173: the critical section of handle_item, under state and inner.
HandleItemSnapshot(p, pts) ==
    /\ p \in sink_pads
    /\ task[p].pc = "idle"
    /\ Cardinality(InFlight) < MaxInFlight
    /\ StateLockOwner = "none"
    /\ Snapshot(p, pts)
    /\ UNCHANGED <<lockvars, list, panicvars>>

\* line 125: now.is_some() && now < running_time (a none time compares false)
needs_delay_never(now, rtime) == FALSE

needs_delay(now, rtime) == now # NoTime /\ rtime # NoTime /\ now < rtime

\* line 126
sync_delay(now, rtime) == rtime - now

\* Abortable::poll: an aborted future ends with Err(Aborted)
is_aborted(t) == t.aborted

\* lines 176, 122-128: first poll of the abortable sync future.
SyncPoll(p) ==
    /\ task[p].pc = "sync"
    /\ LET t == task[p]
           now == running_time
           waits == ~is_aborted(t) /\ needs_delay(now, t.rtime)
       IN /\ task' = [task EXCEPT ![p] =
                 IF is_aborted(t) THEN Flushed
                 ELSE IF waits
                      THEN [t EXCEPT !.pc = "delay",
                                     !.deadline = now + sync_delay(now, t.rtime)]
                      ELSE Proceed(p, t)]
          /\ inner' = [inner EXCEPT ![p].abort_handle =
                 IF waits THEN @ ELSE HandleAfterWait(@)]
    /\ UNCHANGED <<active_sinkpad, switched_pad, pad_serial, sink_pads,
                   sticky, ctl, query, running_time, orphan, selected,
                   lockvars, list, panicvars>>

\* lines 127, 176: delay_for is over when the delay has elapsed; the
\* Abortable around it is over when it was aborted, too.
wait_over_on_abort_only(t) == is_aborted(t)

wait_over(t) == is_aborted(t) \/ running_time >= t.deadline

\* lines 127, 176: the delay elapsed, or the Abortable was aborted.
DelayWake(p) ==
    /\ task[p].pc = "delay"
    /\ wait_over(task[p])
    /\ task' = [task EXCEPT ![p] =
           IF is_aborted(task[p]) THEN Flushed ELSE Proceed(p, task[p])]
    /\ inner' = [inner EXCEPT ![p].abort_handle = HandleAfterWait(@)]
    /\ UNCHANGED <<active_sinkpad, switched_pad, pad_serial, sink_pads,
                   sticky, ctl, query, running_time, orphan, selected,
                   lockvars, list, panicvars>>

\* line 179: for event in stickies takes the events from the front
next_sticky_from_back(stickies, n) == stickies[Len(stickies) + 1 - n]

next_sticky(stickies, n) == stickies[n]

\* lines 179-181: one src_pad.push_event of a collected sticky; its result
\* (ok) is ignored.  out is what this call has pushed to the src pad so far.
PushSticky(p, ok) ==
    /\ task[p].pc = "stickies"
    /\ LET n == task[p].sent + 1
       IN task' = [task EXCEPT ![p].sent = n,
                               ![p].out = Append(@, next_sticky(task[p].stickies, n)),
                               ![p].refused = @ \/ ~ok,
                               ![p].pc = IF n = Len(task[p].stickies)
                                         THEN "push" ELSE "stickies"]
    /\ UNCHANGED <<active_sinkpad, switched_pad, pad_serial, sink_pads, inner,
                   sticky, ctl, query, running_time, orphan, selected,
                   lockvars, list, panicvars>>

\* lines 186-189: the flag the pushed buffer carries
discont_out_always(discont, switched) == TRUE

discont_out(discont, switched) == discont \/ switched

\* lines 183-191: src_pad.push(buffer) of a buffer that arrived with or
\* without DISCONT; the result is downstream's.
PushBuffer(p, discont, flow) ==
    /\ task[p].pc = "push"
    /\ task' = [task EXCEPT ![p] =
           Returned(flow,
                    IF discont_out(discont, task[p].switched_pad)
                    THEN "discont" ELSE "plain",
                    discont)]
    /\ selected' = IF task[p].selected /\ selected = p THEN NoPad ELSE selected
    /\ UNCHANGED <<active_sinkpad, switched_pad, pad_serial, sink_pads, inner,
                   sticky, ctl, query, running_time, orphan,
                   lockvars, list, panicvars>>

\* sink_chain hands the result of handle_item to the caller (line 213).
ChainReturn(p) ==
    /\ task[p].pc = "ret"
    /\ task' = [task EXCEPT ![p] = IdleTask]
    /\ UNCHANGED <<active_sinkpad, switched_pad, pad_serial, sink_pads, inner,
                   sticky, ctl, query, running_time, orphan, selected,
                   lockvars, list, panicvars>>

\* ----------------------------------------------------------------- events
\* lines 252-273: what sink_event_serialized writes, with the pad storing
\* an accepted sticky event.
StoreEvent(p, event) ==
    /\ inner' = [inner EXCEPT
           ![p].segment = IF event.type = "segment" THEN event.segment ELSE @,
           ![p].send_sticky = IF is_sticky(event) THEN TRUE ELSE @]
    /\ sticky' = [sticky EXCEPT
           ![p] = IF is_sticky(event) THEN store_sticky(@, event.type) ELSE @]

\* lines 241-275, with the pad storing an accepted sticky event.
SinkEventSerialized(p, event) ==
    /\ p \in sink_pads
    /\ task[p].pc = "idle"
    /\ StoreEvent(p, event)
    /\ UNCHANGED <<active_sinkpad, switched_pad, pad_serial, sink_pads,
                   task, ctl, query, running_time, orphan, selected,
                   lockvars, list, panicvars>>

\* line 293: abort() reaches the wait the handle belongs to
abort_reaches_none(handle) == FALSE

abort_reaches(handle) == handle = "live"

\* flush-start on one pad aborting the waits of all pads
SinkEventFlushStart_every_pad(p) ==
    /\ p \in sink_pads
    /\ task' = [q \in PadIds |->
           [task[q] EXCEPT !.aborted = IF task[q].pc \in {"sync", "delay"} THEN TRUE ELSE @]]
    /\ inner' = [inner EXCEPT ![p].abort_handle = "none"]
    /\ UNCHANGED <<active_sinkpad, switched_pad, pad_serial, sink_pads, sticky,
                   ctl, query, running_time, orphan, selected,
                   lockvars, list, panicvars>>

\* lines 290-294: abort_handle.take() and abort()
AbortWait(p) ==
    /\ task' = [task EXCEPT ![p].aborted =
           IF abort_reaches(inner[p].abort_handle) THEN TRUE ELSE @]
    /\ inner' = [inner EXCEPT ![p].abort_handle = "none"]

\* lines 277-299, flush-start: forwarded to the src pad, then
\* abort_handle.take() and abort().  Every other non-serialized event is
\* dropped without effect.
SinkEventFlushStart(p) ==
    /\ p \in sink_pads
    /\ AbortWait(p)
    /\ UNCHANGED <<active_sinkpad, switched_pad, pad_serial, sink_pads, sticky,
                   ctl, query, running_time, orphan, selected,
                   lockvars, list, panicvars>>

\* ------------------------------------------------------------------ clock
Tick ==
    /\ running_time # NoTime
    /\ running_time < MaxTime
    /\ running_time' = running_time + 1
    /\ UNCHANGED <<active_sinkpad, switched_pad, pad_serial, sink_pads, inner,
                   sticky, task, ctl, query, orphan, selected,
                   lockvars, list, panicvars>>

\* ------------------------------------------------------- application calls
\* A call is observed either with its return as a later step (rec), the
\* guards being held in between, or as one step.
CtlCall(rec, op, pad) ==
    IF rec
    THEN [op |-> op, pad |-> pad, old_active |-> active_sinkpad,
          old_switched |-> switched_pad]
    ELSE CtlIdle

\* line 545: pads.sink_pads.get(&pad).is_some()
pad_is_known_any(pad) == TRUE

pad_is_known(pad) == pad \in sink_pads

\* lines 546-547: a known pad becomes the active pad and marks the switch
switched_after_set(pad) == TRUE

\* lines 544-551: what set_property("active-pad") writes under its guards
SetActivePad(pad) ==
    IF pad # NoPad
    THEN IF pad_is_known(pad)
         THEN /\ active_sinkpad' = pad
              /\ switched_pad' = switched_after_set(pad)
              /\ orphan' = "no"
              /\ selected' = pad
         ELSE UNCHANGED <<active_sinkpad, switched_pad, orphan, selected>>
    ELSE /\ active_sinkpad' = NoPad
         /\ orphan' = IF orphan = "released" THEN "reset" ELSE orphan
         /\ selected' = NoPad
         /\ UNCHANGED switched_pad

\* lines 540-552: set_property("active-pad"), called with a pad or with none.
SetProperty(pad, rec) ==
    /\ ctl.op = "idle"
    /\ StateLockOwner = "none"
    /\ PadsLockOwner = "none"
    /\ SetActivePad(pad)
    /\ ctl' = CtlCall(rec, "set_property", pad)
    /\ UNCHANGED <<pad_serial, sink_pads, inner, sticky, task, query,
                   running_time,
                   lockvars, list, panicvars>>

\* line 641: state.active_sinkpad.is_none()
takes_active_always == TRUE

takes_active == active_sinkpad = NoPad

\* lines 631-646: what request_new_pad writes under its guards
AddPad(ret) ==
    /\ pad_serial' = pad_serial + 1
    /\ inner' = [inner EXCEPT ![ret] = InnerDefault]
    /\ IF takes_active
       THEN /\ active_sinkpad' = ret
            /\ switched_pad' = TRUE
       ELSE UNCHANGED <<active_sinkpad, switched_pad>>
    /\ sink_pads' = sink_pads \cup {ret}

\* lines 622-649: request_new_pad; the pad "sink_<n>" has identity n + 1.
RequestNewPad(rec) ==
    /\ ctl.op = "idle"
    /\ StateLockOwner = "none"
    /\ PadsLockOwner = "none"
    /\ pad_serial < MaxSerial
    /\ Cardinality(sink_pads) < MaxSinkPads
    /\ AddPad(pad_serial + 1)
    /\ ctl' = CtlCall(rec, "request_new_pad", pad_serial + 1)
    /\ UNCHANGED <<sticky, task, query, running_time, orphan, selected,
                   lockvars, list, panicvars>>

\* lines 651-656: release_pad never touches self.state
active_after_release_cleared(pad) ==
    IF active_sinkpad = pad THEN NoPad ELSE active_sinkpad

active_after_release(pad) == active_sinkpad

\* lines 653-655: what release_pad writes under its guard
RemovePad(pad) ==
    /\ sink_pads' = sink_pads \ {pad}
    /\ inner' = [inner EXCEPT ![pad] = InnerDefault]
    /\ sticky' = [sticky EXCEPT ![pad] = <<>>]
    /\ active_sinkpad' = active_after_release(pad)
    /\ orphan' = IF active_sinkpad = pad THEN "released" ELSE orphan
    /\ selected' = IF selected = pad THEN NoPad ELSE selected

\* lines 651-656: release_pad of a pad of the registry; the PadSink, its
\* handler and the pad's sticky events go away with it.
ReleasePad(pad, rec) ==
    /\ ctl.op = "idle"
    /\ PadsLockOwner = "none"
    /\ pad \in sink_pads
    /\ RemovePad(pad)
    /\ ctl' = CtlCall(rec, "release_pad", pad)
    /\ UNCHANGED <<switched_pad, pad_serial, task, query, running_time,
                   lockvars, list, panicvars>>

\* line 462: *state = State::default()
ResetState ==
    /\ active_sinkpad' = NoPad
    /\ switched_pad' = TRUE
    /\ orphan' = IF orphan = "released" THEN "reset" ELSE orphan
    /\ selected' = NoPad

\* line 462 left out: the state stays as it was
Unprepare_keeps_state(rec) ==
    /\ ctl.op = "idle"
    /\ StateLockOwner = "none"
    /\ ctl' = CtlCall(rec, "unprepare", NoPad)
    /\ UNCHANGED <<active_sinkpad, switched_pad, pad_serial, sink_pads, inner,
                   sticky, task, query, running_time, orphan, selected,
                   lockvars, list, panicvars>>

\* lines 456-467: unprepare resets self.state to State::default.
Unprepare(rec) ==
    /\ ctl.op = "idle"
    /\ StateLockOwner = "none"
    /\ ResetState
    /\ ctl' = CtlCall(rec, "unprepare", NoPad)
    /\ UNCHANGED <<pad_serial, sink_pads, inner, sticky, task, query,
                   running_time,
                   lockvars, list, panicvars>>

\* The call returns and drops its MutexGuards.
CtlReturn ==
    /\ ctl.op # "idle"
    /\ ctl' = CtlIdle
    /\ UNCHANGED <<active_sinkpad, switched_pad, pad_serial, sink_pads, inner,
                   sticky, task, query, running_time, orphan, selected,
                   lockvars, list, panicvars>>

\* ----------------------------------------------------- src_query, latency
\* lines 345-347: lock self.state and clone active_sinkpad
SrcQueryLock ==
    /\ query.pc = "idle"
    /\ StateLockOwner = "none"
    /\ query' = [QueryIdle EXCEPT !.pc = "locked", !.sinkpad = active_sinkpad]
    /\ UNCHANGED <<active_sinkpad, switched_pad, pad_serial, sink_pads, inner,
                   sticky, task, ctl, running_time, orphan, selected,
                   lockvars, list, panicvars>>

\* line 348: the guard is dropped at the end of the block, before the peer
\* is queried
pc_after_read_locked == "peer_locked"

pc_after_read == "peer"

SrcQueryUnlock ==
    /\ query.pc = "locked"
    /\ query' = [query EXCEPT !.pc = pc_after_read]
    /\ UNCHANGED <<active_sinkpad, switched_pad, pad_serial, sink_pads, inner,
                   sticky, task, ctl, running_time, orphan, selected,
                   lockvars, list, panicvars>>

\* sinkpad.peer_query: a released pad has no peer, a peer may refuse
PeerAnswers(pad) == IF pad \in sink_pads THEN BOOLEAN ELSE {FALSE}

\* lines 355-359, 362: the values q.set() receives
latency_min_zero(ret, min, max) == 0

latency_min(ret, min, max) == IF ret THEN min ELSE 0

latency_max(ret, min, max) == IF ret THEN max ELSE 0

latency_live(ret, live) == TRUE

\* lines 350-364
SrcQueryPeer(answered, live, min, max) ==
    /\ query.pc \in {"peer", "peer_locked"}
    /\ IF query.sinkpad # NoPad
       THEN /\ answered \in PeerAnswers(query.sinkpad)
            /\ query' = [query EXCEPT
                   !.pc = "done", !.answered = answered,
                   !.peer_live = live, !.peer_min = min, !.peer_max = max,
                   !.ret = answered,
                   !.live = latency_live(answered, live),
                   !.min = latency_min(answered, min, max),
                   !.max = latency_max(answered, min, max)]
       ELSE /\ answered = FALSE /\ live = FALSE /\ min = 0 /\ max = 0
            /\ query' = [query EXCEPT
                   !.pc = "done", !.ret = TRUE,
                   !.live = latency_live(TRUE, FALSE),
                   !.min = latency_min(FALSE, 0, 0),
                   !.max = latency_max(FALSE, 0, 0)]
    /\ UNCHANGED <<active_sinkpad, switched_pad, pad_serial, sink_pads, inner,
                   sticky, task, ctl, running_time, orphan, selected,
                   lockvars, list, panicvars>>

SrcQueryReturn ==
    /\ query.pc = "done"
    /\ query' = QueryIdle
    /\ UNCHANGED <<active_sinkpad, switched_pad, pad_serial, sink_pads, inner,
                   sticky, task, ctl, running_time, orphan, selected,
                   lockvars, list, panicvars>>

\* ------------------------------------------------------------ buffer lists
\* line 233: `?` ends sink_chain_list with the Err of handle_item
after_item_continue(l, t) ==
    [l EXCEPT !.rets = Append(@, t.ret),
              !.pushed = IF t.fwd # "dropped" THEN Append(@, Len(l.rets) + 1) ELSE @]

\* lines 232-234: handle_item of one buffer of the list has returned t.ret,
\* having handed the buffer to the src pad or not.
after_item(l, t) ==
    [l EXCEPT !.pc = IF t.ret # "Ok" THEN "ret" ELSE @,
              !.ret = IF t.ret # "Ok" THEN t.ret ELSE @,
              !.rets = Append(@, t.ret),
              !.pushed = IF t.fwd # "dropped" THEN Append(@, Len(l.rets) + 1) ELSE @]

\* lines 218-231: sink_chain_list is called with a list of len buffers
SinkChainList(p, len) ==
    /\ p \in sink_pads
    /\ task[p].pc = "idle"
    /\ list[p].pc = "idle"
    /\ Cardinality({q \in PadIds : list[q].pc # "idle"}) < MaxInFlight
    /\ list' = [list EXCEPT ![p] = [ListIdle EXCEPT !.pc = "run", !.len = len]]
    /\ UNCHANGED <<active_sinkpad, switched_pad, pad_serial, sink_pads, inner,
                   sticky, task, ctl, query, running_time, orphan, selected,
                   lockvars, panicvars>>

\* lines 232-233: list.iter_owned() yields the next buffer, handle_item is
\* called with it and runs its critical section.
ListItemSnapshot(p, pts) ==
    /\ list[p].pc = "run"
    /\ Len(list[p].rets) < list[p].len
    /\ task[p].pc = "idle"
    /\ Cardinality(InFlight) < MaxInFlight
    /\ StateLockOwner = "none"
    /\ Snapshot(p, pts)
    /\ UNCHANGED <<lockvars, list, panicvars>>

\* line 233: handle_item(..).await? returns
ListItemReturn(p) ==
    /\ list[p].pc = "run"
    /\ task[p].pc = "ret"
    /\ list' = [list EXCEPT ![p] = after_item(@, task[p])]
    /\ task' = [task EXCEPT ![p] = IdleTask]
    /\ UNCHANGED <<active_sinkpad, switched_pad, pad_serial, sink_pads, inner,
                   sticky, ctl, query, running_time, orphan, selected,
                   lockvars, panicvars>>

\* line 236: the iterator is exhausted, Ok(gst::FlowSuccess::Ok)
ListDone(p) ==
    /\ list[p].pc = "run"
    /\ Len(list[p].rets) = list[p].len
    /\ task[p].pc = "idle"
    /\ list' = [list EXCEPT ![p].pc = "ret", ![p].ret = "Ok"]
    /\ UNCHANGED <<active_sinkpad, switched_pad, pad_serial, sink_pads, inner,
                   sticky, task, ctl, query, running_time, orphan, selected,
                   lockvars, panicvars>>

\* the future of sink_chain_list hands its result to the caller
ListReturn(p) ==
    /\ list[p].pc = "ret"
    /\ list' = [list EXCEPT ![p] = ListIdle]
    /\ UNCHANGED <<active_sinkpad, switched_pad, pad_serial, sink_pads, inner,
                   sticky, task, ctl, query, running_time, orphan, selected,
                   lockvars, panicvars>>

\* ------------------------------------------------- the handlers, lock by lock
\* The same handlers with every lock() and every drop of a guard as a step
\* of its own.  A thread at a lock_* position is inside lock() and goes on
\* when the Mutex is free.
StateLock == [kind |-> "state", pad |-> NoPad]
PadsLock == [kind |-> "pads", pad |-> NoPad]
InnerLock(p) == [kind |-> "inner", pad |-> p]
NoLock == [kind |-> "none", pad |-> NoPad]

Owner(l) ==
    IF l.kind = "state" THEN locks.state
    ELSE IF l.kind = "pads" THEN locks.pads
    ELSE locks.inner[l.pad]

Acquire(l, t) ==
    IF l.kind = "state" THEN [locks EXCEPT !.state = t]
    ELSE IF l.kind = "pads" THEN [locks EXCEPT !.pads = t]
    ELSE [locks EXCEPT !.inner[l.pad] = t]

\* Every guard of thread t is dropped.
DropAll(t) ==
    [state |-> IF locks.state = t THEN NoThread ELSE locks.state,
     pads |-> IF locks.pads = t THEN NoThread ELSE locks.pads,
     inner |-> [p \in PadIds |->
                   IF locks.inner[p] = t THEN NoThread ELSE locks.inner[p]]]

\* line 173: the block ends, the guards of inner and state are dropped
locks_after_snapshot_inner_kept(p) == [locks EXCEPT !.state = NoThread]

locks_after_snapshot(p) == DropAll(TaskThread(p))

\* The threads inside a handler.
Busy ==
    {TaskThread(p) : p \in {q \in PadIds : task[q].pc # "idle"}}
    \cup {FlushThread(p) : p \in {q \in PadIds : flush[q] # "idle"}}
    \cup (IF app.pc # "idle" THEN {AppThread} ELSE {})
    \cup (IF query.pc # "idle" THEN {QueryThread} ELSE {})

\* sink_chain calls handle_item (line 213)
LockItemEnter(p) ==
    /\ p \in sink_pads
    /\ task[p].pc = "idle"
    /\ Cardinality(Busy) < MaxBusy
    /\ task' = [task EXCEPT ![p].pc = "lock_state"]
    /\ UNCHANGED <<active_sinkpad, switched_pad, pad_serial, sink_pads, inner,
                   sticky, ctl, query, running_time, orphan, selected,
                   lockvars, list, panicvars>>

\* line 140: inputselector.state.lock()
LockItemState(p) ==
    /\ task[p].pc = "lock_state"
    /\ Owner(StateLock) = NoThread
    /\ locks' = Acquire(StateLock, TaskThread(p))
    /\ task' = [task EXCEPT ![p].pc = "lock_inner"]
    /\ UNCHANGED <<active_sinkpad, switched_pad, pad_serial, sink_pads, inner,
                   sticky, ctl, query, running_time, orphan, selected,
                   flush, app, list, panicvars>>

\* line 141: self.0.lock()
LockItemInner(p) ==
    /\ task[p].pc = "lock_inner"
    /\ Owner(InnerLock(p)) = NoThread
    /\ locks' = Acquire(InnerLock(p), TaskThread(p))
    /\ task' = [task EXCEPT ![p].pc = "locked"]
    /\ UNCHANGED <<active_sinkpad, switched_pad, pad_serial, sink_pads, inner,
                   sticky, ctl, query, running_time, orphan, selected,
                   flush, app, list, panicvars>>

\* lines 142-173: the critical section and the end of its block
LockItemSnapshot(p, pts) ==
    /\ task[p].pc = "locked"
    /\ Snapshot(p, pts)
    /\ locks' = locks_after_snapshot(p)
    /\ UNCHANGED <<flush, app, list, panicvars>>

\* the pad's task calls sink_event_serialized (line 241)
LockEventEnter(p) ==
    /\ p \in sink_pads
    /\ task[p].pc = "idle"
    /\ Cardinality(Busy) < MaxBusy
    /\ task' = [task EXCEPT ![p].pc = "ev_lock"]
    /\ UNCHANGED <<active_sinkpad, switched_pad, pad_serial, sink_pads, inner,
                   sticky, ctl, query, running_time, orphan, selected,
                   lockvars, list, panicvars>>

\* line 251: this.0.lock()
LockEventInner(p) ==
    /\ task[p].pc = "ev_lock"
    /\ Owner(InnerLock(p)) = NoThread
    /\ locks' = Acquire(InnerLock(p), TaskThread(p))
    /\ task' = [task EXCEPT ![p].pc = "ev_locked"]
    /\ UNCHANGED <<active_sinkpad, switched_pad, pad_serial, sink_pads, inner,
                   sticky, ctl, query, running_time, orphan, selected,
                   flush, app, list, panicvars>>

\* lines 252-273: the event is recorded, the async block ends
LockEventStore(p, event) ==
    /\ task[p].pc = "ev_locked"
    /\ StoreEvent(p, event)
    /\ task' = [task EXCEPT ![p].pc = "idle"]
    /\ locks' = DropAll(TaskThread(p))
    /\ UNCHANGED <<active_sinkpad, switched_pad, pad_serial, sink_pads,
                   ctl, query, running_time, orphan, selected, flush, app, list, panicvars>>

\* line 288: flush-start is pushed to the src pad
LockFlushPush(p) ==
    /\ p \in sink_pads
    /\ flush[p] = "idle"
    /\ Cardinality(Busy) < MaxBusy
    /\ flush' = [flush EXCEPT ![p] = "push"]
    /\ UNCHANGED <<active_sinkpad, switched_pad, pad_serial, sink_pads, inner,
                   sticky, task, ctl, query, running_time, orphan, selected,
                   locks, app, list, panicvars>>

\* line 288 returns; line 290: self.0.lock()
LockFlushPushed(p) ==
    /\ flush[p] = "push"
    /\ flush' = [flush EXCEPT ![p] = "lock_inner"]
    /\ UNCHANGED <<active_sinkpad, switched_pad, pad_serial, sink_pads, inner,
                   sticky, task, ctl, query, running_time, orphan, selected,
                   locks, app, list, panicvars>>

LockFlushInner(p) ==
    /\ flush[p] = "lock_inner"
    /\ Owner(InnerLock(p)) = NoThread
    /\ locks' = Acquire(InnerLock(p), FlushThread(p))
    /\ flush' = [flush EXCEPT ![p] = "locked"]
    /\ UNCHANGED <<active_sinkpad, switched_pad, pad_serial, sink_pads, inner,
                   sticky, task, ctl, query, running_time, orphan, selected,
                   app, list, panicvars>>

\* lines 292-296: the handle is taken and aborted, the guard is dropped
LockFlushAbort(p) ==
    /\ flush[p] = "locked"
    /\ AbortWait(p)
    /\ flush' = [flush EXCEPT ![p] = "idle"]
    /\ locks' = DropAll(FlushThread(p))
    /\ UNCHANGED <<active_sinkpad, switched_pad, pad_serial, sink_pads, sticky,
                   ctl, query, running_time, orphan, selected, app, list, panicvars>>

\* The first Mutex a call of the application thread locks: release_pad
\* locks pads only (line 652), the others lock state first (lines 457,
\* 542, 629).
first_lock(op) == IF op = "release_pad" THEN "lock_pads" ELSE "lock_state"

\* unprepare locks state only; set_property and request_new_pad lock pads
\* after state (lines 543, 630).
after_state_lock(op) == IF op = "unprepare" THEN "held" ELSE "lock_pads"

\* The application calls set_property, request_new_pad, release_pad or
\* unprepare.
LockCall(op, pad) ==
    /\ app.pc = "idle"
    /\ Cardinality(Busy) < MaxBusy
    /\ op = "request_new_pad" => (pad = pad_serial + 1 /\ pad_serial < MaxSerial)
    /\ op = "release_pad" => pad \in sink_pads
    /\ op = "unprepare" => pad = NoPad
    /\ app' = [pc |-> first_lock(op), op |-> op, pad |-> pad]
    /\ UNCHANGED <<active_sinkpad, switched_pad, pad_serial, sink_pads, inner,
                   sticky, task, ctl, query, running_time, orphan, selected,
                   locks, flush, list, panicvars>>

LockAppState ==
    /\ app.pc = "lock_state"
    /\ Owner(StateLock) = NoThread
    /\ locks' = Acquire(StateLock, AppThread)
    /\ app' = [app EXCEPT !.pc = after_state_lock(app.op)]
    /\ UNCHANGED <<active_sinkpad, switched_pad, pad_serial, sink_pads, inner,
                   sticky, task, ctl, query, running_time, orphan, selected,
                   flush, list, panicvars>>

LockAppPads ==
    /\ app.pc = "lock_pads"
    /\ Owner(PadsLock) = NoThread
    /\ locks' = Acquire(PadsLock, AppThread)
    /\ app' = [app EXCEPT !.pc = "held"]
    /\ UNCHANGED <<active_sinkpad, switched_pad, pad_serial, sink_pads, inner,
                   sticky, task, ctl, query, running_time, orphan, selected,
                   flush, list, panicvars>>

\* The body of the call under its guards, and its return.
LockAppBody ==
    /\ app.pc = "held"
    /\ CASE app.op = "set_property" ->
              /\ SetActivePad(app.pad)
              /\ UNCHANGED <<pad_serial, sink_pads, inner, sticky>>
         [] app.op = "request_new_pad" ->
              /\ AddPad(app.pad)
              /\ UNCHANGED <<sticky, orphan, selected>>
         [] app.op = "release_pad" ->
              /\ RemovePad(app.pad)
              /\ UNCHANGED <<switched_pad, pad_serial>>
         [] app.op = "unprepare" ->
              /\ ResetState
              /\ UNCHANGED <<pad_serial, sink_pads, inner, sticky>>
    /\ locks' = DropAll(AppThread)
    /\ app' = AppIdle
    /\ UNCHANGED <<task, ctl, query, running_time, flush, list, panicvars>>

\* src_query is called with a latency query (line 340)
LockQueryEnter ==
    /\ query.pc = "idle"
    /\ Cardinality(Busy) < MaxBusy
    /\ query' = [QueryIdle EXCEPT !.pc = "lock_state"]
    /\ UNCHANGED <<active_sinkpad, switched_pad, pad_serial, sink_pads, inner,
                   sticky, task, ctl, running_time, orphan, selected,
                   lockvars, list, panicvars>>

\* lines 346-347: inputselector.state.lock(), active_sinkpad.clone()
LockQueryState ==
    /\ query.pc = "lock_state"
    /\ Owner(StateLock) = NoThread
    /\ locks' = Acquire(StateLock, QueryThread)
    /\ query' = [query EXCEPT !.pc = "locked", !.sinkpad = active_sinkpad]
    /\ UNCHANGED <<active_sinkpad, switched_pad, pad_serial, sink_pads, inner,
                   sticky, task, ctl, running_time, orphan, selected,
                   flush, app, list, panicvars>>

\* line 348: the block ends, the guard is dropped
LockQueryUnlock ==
    /\ query.pc = "locked"
    /\ locks' = DropAll(QueryThread)
    /\ query' = [query EXCEPT !.pc = pc_after_read]
    /\ UNCHANGED <<active_sinkpad, switched_pad, pad_serial, sink_pads, inner,
                   sticky, task, ctl, running_time, orphan, selected,
                   flush, app, list, panicvars>>

\* ---------------------------------------------------------- panic_to_error
\* line 127: $panicked.load(Ordering::Relaxed) decides whether the body runs
guard_skips_never(flag) == FALSE

guard_skips(flag) == flag

\* lines 122-127: a guarded operation starts and loads the flag
PanicLoad(c) ==
    /\ guarded[c].pc = "idle"
    /\ guarded' = [guarded EXCEPT
           ![c].pc = IF guard_skips(panicked) THEN "latched" ELSE "body"]
    /\ UNCHANGED <<active_sinkpad, switched_pad, pad_serial, sink_pads, inner,
                   sticky, task, ctl, query, running_time, orphan, selected,
                   lockvars, list, panicked>>

\* lines 128-129: the flag was set: an error message is posted and $ret is
\* the result, the body is not executed
PanicLatched(c) ==
    /\ guarded[c].pc = "latched"
    /\ guarded' = [guarded EXCEPT
           ![c].pc = "ret", ![c].posted = TRUE, ![c].ret = Fallback]
    /\ UNCHANGED <<active_sinkpad, switched_pad, pad_serial, sink_pads, inner,
                   sticky, task, ctl, query, running_time, orphan, selected,
                   lockvars, list, panicked>>

\* lines 131-134: catch_unwind runs the body, which returns r
BodyReturns(c, r) ==
    /\ guarded[c].pc = "body"
    /\ guarded' = [guarded EXCEPT
           ![c].pc = "ret", ![c].ran = TRUE, ![c].body = r, ![c].ret = r]
    /\ UNCHANGED <<active_sinkpad, switched_pad, pad_serial, sink_pads, inner,
                   sticky, task, ctl, query, running_time, orphan, selected,
                   lockvars, list, panicked>>

\* lines 131-135: catch_unwind runs the body, which panics
BodyPanics(c) ==
    /\ guarded[c].pc = "body"
    /\ guarded' = [guarded EXCEPT
           ![c].pc = "caught", ![c].ran = TRUE, ![c].failed = TRUE]
    /\ UNCHANGED <<active_sinkpad, switched_pad, pad_serial, sink_pads, inner,
                   sticky, task, ctl, query, running_time, orphan, selected,
                   lockvars, list, panicked>>

\* line 136: $panicked.store(true, Ordering::Relaxed)
PanicStore(c) ==
    /\ guarded[c].pc = "caught"
    /\ panicked' = TRUE
    /\ guarded' = [guarded EXCEPT ![c].pc = "post"]
    /\ UNCHANGED <<active_sinkpad, switched_pad, pad_serial, sink_pads, inner,
                   sticky, task, ctl, query, running_time, orphan, selected,
                   lockvars, list>>

\* lines 137-144: the error message is posted, $ret is the result
PanicPost(c) ==
    /\ guarded[c].pc = "post"
    /\ guarded' = [guarded EXCEPT
           ![c].pc = "ret", ![c].posted = TRUE, ![c].ret = Fallback]
    /\ UNCHANGED <<active_sinkpad, switched_pad, pad_serial, sink_pads, inner,
                   sticky, task, ctl, query, running_time, orphan, selected,
                   lockvars, list, panicked>>

\* the value of the macro's block goes to the caller
GuardReturn(c) ==
    /\ guarded[c].pc = "ret"
    /\ guarded' = [guarded EXCEPT ![c] = GuardIdle]
    /\ UNCHANGED <<active_sinkpad, switched_pad, pad_serial, sink_pads, inner,
                   sticky, task, ctl, query, running_time, orphan, selected,
                   lockvars, list, panicked>>

\* ---------------------------------------------------------- specifications
\* Streaming with time segments, the clock and flush-start; application
\* calls are one step each.
Next ==
    \/ \E p \in PadIds, pts \in PtsValues : HandleItemSnapshot(p, pts)
    \/ \E p \in PadIds : SyncPoll(p)
    \/ \E p \in PadIds : DelayWake(p)
    \/ \E p \in PadIds : PushSticky(p, TRUE)
    \/ \E p \in PadIds, discont \in BOOLEAN, flow \in FlowRets :
           PushBuffer(p, discont, flow)
    \/ \E p \in PadIds : ChainReturn(p)
    \/ \E p \in PadIds, event \in TimedEvents : SinkEventSerialized(p, event)
    \/ \E p \in PadIds : SinkEventFlushStart(p)
    \/ Tick
    \/ \E pad \in PadArgs : SetProperty(pad, FALSE)
    \/ RequestNewPad(FALSE)
    \/ \E pad \in PadIds : ReleasePad(pad, FALSE)
    \/ Unprepare(FALSE)

Spec == Init /\ [][Next]_vars

\* Application calls observed with their return, streaming without time
\* segments.
NextCtl ==
    \/ \E p \in PadIds : HandleItemSnapshot(p, NoTime)
    \/ \E p \in PadIds : PushSticky(p, TRUE)
    \/ \E p \in PadIds, discont \in BOOLEAN, flow \in FlowRets :
           PushBuffer(p, discont, flow)
    \/ \E p \in PadIds : ChainReturn(p)
    \/ \E p \in PadIds, event \in UntimedEvents : SinkEventSerialized(p, event)
    \/ \E pad \in PadArgs : SetProperty(pad, TRUE)
    \/ RequestNewPad(TRUE)
    \/ \E pad \in PadIds : ReleasePad(pad, TRUE)
    \/ Unprepare(TRUE)
    \/ CtlReturn

SpecCtl == Init /\ [][NextCtl]_vars

\* Latency queries on the src pad against application calls.
NextQuery ==
    \/ \E pad \in PadArgs : SetProperty(pad, TRUE)
    \/ RequestNewPad(TRUE)
    \/ \E pad \in PadIds : ReleasePad(pad, TRUE)
    \/ Unprepare(TRUE)
    \/ CtlReturn
    \/ SrcQueryLock
    \/ SrcQueryUnlock
    \/ \E answered \in BOOLEAN, live \in BOOLEAN, min \in Latencies, max \in Latencies :
           SrcQueryPeer(answered, live, min, max)
    \/ SrcQueryReturn

SpecQuery == Init /\ [][NextQuery]_vars

\* Sticky replay: events and buffers without time segments, the pushes to
\* the src pad with their results.
NextSticky ==
    \/ \E p \in PadIds : HandleItemSnapshot(p, NoTime)
    \/ \E p \in PadIds, ok \in BOOLEAN : PushSticky(p, ok)
    \/ \E p \in PadIds, discont \in BOOLEAN, flow \in FlowRets :
           PushBuffer(p, discont, flow)
    \/ \E p \in PadIds : ChainReturn(p)
    \/ \E p \in PadIds, event \in UntimedEvents \cup {GapEvent} :
           SinkEventSerialized(p, event)
    \/ \E pad \in PadArgs : SetProperty(pad, FALSE)
    \/ RequestNewPad(FALSE)

SpecSticky == Init /\ [][NextSticky]_vars

\* Every handler lock by lock: buffers and events of pads with time
\* segments, flush-start, the application calls, latency queries.
NextLocks ==
    \/ \E p \in PadIds : LockItemEnter(p)
    \/ \E p \in PadIds : LockItemState(p)
    \/ \E p \in PadIds : LockItemInner(p)
    \/ \E p \in PadIds : LockItemSnapshot(p, NoTime)
    \/ \E p \in PadIds : SyncPoll(p)
    \/ \E p \in PadIds : PushSticky(p, TRUE)
    \/ \E p \in PadIds : PushBuffer(p, FALSE, "Ok")
    \/ \E p \in PadIds : ChainReturn(p)
    \/ \E p \in PadIds : LockEventEnter(p)
    \/ \E p \in PadIds : LockEventInner(p)
    \/ \E p \in PadIds, seg \in TimeSegments : LockEventStore(p, SegmentEvent(seg))
    \/ \E p \in PadIds : LockFlushPush(p)
    \/ \E p \in PadIds : LockFlushPushed(p)
    \/ \E p \in PadIds : LockFlushInner(p)
    \/ \E p \in PadIds : LockFlushAbort(p)
    \/ \E op \in {"set_property", "request_new_pad", "release_pad", "unprepare"},
          pad \in PadArgs : LockCall(op, pad)
    \/ LockAppState
    \/ LockAppPads
    \/ LockAppBody
    \/ LockQueryEnter
    \/ LockQueryState
    \/ LockQueryUnlock
    \/ SrcQueryPeer(FALSE, FALSE, 0, 0)
    \/ SrcQueryReturn

SpecLocks == InitNoClock /\ [][NextLocks]_vars

\* Buffer lists on pads with time segments; between two lists the pad's
\* task brings serialized events.
NextList ==
    \/ \E p \in PadIds, len \in 0..MaxList : SinkChainList(p, len)
    \/ \E p \in PadIds : ListItemSnapshot(p, NoTime)
    \/ \E p \in PadIds : SyncPoll(p)
    \/ \E p \in PadIds : PushSticky(p, TRUE)
    \/ \E p \in PadIds, flow \in FlowRets : PushBuffer(p, FALSE, flow)
    \/ \E p \in PadIds : ListItemReturn(p)
    \/ \E p \in PadIds : ListDone(p)
    \/ \E p \in PadIds : ListReturn(p)
    \/ \E p \in PadIds, seg \in TimeSegments :
           list[p].pc = "idle" /\ SinkEventSerialized(p, SegmentEvent(seg))
    \/ \E p \in PadIds : SinkEventFlushStart(p)
    \/ \E pad \in PadArgs : SetProperty(pad, FALSE)
    \/ RequestNewPad(FALSE)

SpecList == InitNoClock /\ [][NextList]_vars

\* The handlers of Spec where the executor goes on polling each streaming
\* task that can make progress, every push to the src pad returns, and the
\* clock goes on.
Fairness ==
    /\ WF_vars(Tick)
    /\ \A p \in PadIds :
           /\ WF_vars(SyncPoll(p))
           /\ WF_vars(DelayWake(p))
           /\ WF_vars(PushSticky(p, TRUE))
           /\ WF_vars(\E discont \in BOOLEAN, flow \in FlowRets :
                          PushBuffer(p, discont, flow))

SpecLive == Init /\ [][Next]_vars /\ Fairness

\* Guarded operations of the callers, on one flag.
NextPanic ==
    \/ \E c \in Callers : PanicLoad(c)
    \/ \E c \in Callers : PanicLatched(c)
    \/ \E c \in Callers, r \in BodyRets : BodyReturns(c, r)
    \/ \E c \in Callers : BodyPanics(c)
    \/ \E c \in Callers : PanicStore(c)
    \/ \E c \in Callers : PanicPost(c)
    \/ \E c \in Callers : GuardReturn(c)

SpecPanic == Init /\ [][NextPanic]_vars

\* ------------------------------------------------------------- properties
\* Steps of handle_item as seen on the task of pad p.
SnapshotStep(p) == task[p].pc = "idle" /\ task'[p].pc # "idle"
StickyPushStep(p) == task'[p].sent > task[p].sent
BufferPushStep(p) ==
    task[p].pc = "push" /\ task'[p].pc = "ret" /\ task'[p].fwd # "dropped"

\* C1: a buffer whose snapshot found its pad not active is never pushed to
\* the src pad, and no sticky event is pushed for it, whatever happens to
\* active_sinkpad while the buffer is handled.
C1_InactiveNeverPushed ==
    [][\A p \in PadIds :
          (StickyPushStep(p) \/ BufferPushStep(p)) => task[p].is_active]_vars

\* C1 witness: a buffer found its pad inactive, waits for its running time,
\* and the pad has become the active pad in the meantime.
C1_Witness ==
    \E p \in PadIds :
        /\ task[p].pc = "delay"
        /\ ~task[p].is_active
        /\ active_sinkpad = p

\* C2: after set_active selected the connected pad p, the first buffer that
\* arrives on p afterwards and is pushed carries DISCONT and was preceded by
\* all sticky events stored on p, also after buffers on p whose wait was
\* cancelled by flush-start.
C2_FirstPushAfterSelect ==
    [][\A p \in PadIds :
          (BufferPushStep(p) /\ task[p].selected /\ selected = p)
              => /\ task'[p].fwd = "discont"
                 /\ task[p].stickies = sticky[p]
                 /\ task[p].sent = Len(task[p].stickies)]_vars

\* C3: set_active with the pad that is already active leaves switched_pad
\* as it was.
C3_ReselectKeepsSwitchedPad ==
    (/\ ctl.op = "set_property"
     /\ ctl.pad # NoPad
     /\ ctl.pad \in sink_pads
     /\ ctl.pad = ctl.old_active)
        => switched_pad = ctl.old_switched

\* C4: flush-start on a pad whose stored wait has not completed aborts that
\* wait; the buffer of an aborted wait is never pushed, its handle_item
\* returns Flushing, and the call ends there.
C4_FlushCancelsWait ==
    [][\A p \in PadIds :
          /\ (/\ inner[p].abort_handle = "live"
              /\ inner'[p].abort_handle = "none"
              /\ p \in sink_pads') => task'[p].aborted
          /\ task[p].aborted => task[p].pc \in {"sync", "delay"}
          /\ (task[p].aborted /\ task'[p] # task[p]) => task'[p] = Flushed
          /\ task[p].pc = "ret" => task'[p].pc \in {"ret", "idle"}]_vars

\* C4 witness: a handle_item returned Flushing.
C4_Witness ==
    \E p \in PadIds : task[p].pc = "ret" /\ task[p].ret = "Flushing"

DroppedAtOnce(p) == task'[p] = Returned("Ok", "dropped", FALSE)

\* C6 as stated: after release_pad of the active pad every buffer arriving
\* on a pad of the registry is dropped until set_active is called with a
\* connected pad.
C6_DroppedUntilSetActivePad ==
    [][\A p \in PadIds :
          (SnapshotStep(p) /\ orphan # "no") => DroppedAtOnce(p)]_vars

\* C6 amended: after release_pad of the active pad every buffer arriving on
\* a pad of the registry is dropped until set_active is called, with a pad
\* or with none, or unprepare resets the state; release_pad itself makes no
\* pad active.
C6_DroppedUntilReselected ==
    [][\A p \in PadIds :
          (SnapshotStep(p) /\ orphan = "released") => DroppedAtOnce(p)]_vars

\* C6 witness: the active pad was released, a pad was requested afterwards,
\* and a buffer on it was dropped.
C6_Witness ==
    \E p \in sink_pads :
        /\ orphan = "released"
        /\ active_sinkpad # NoPad
        /\ active_sinkpad < p
        /\ task[p].pc = "ret"
        /\ task[p].fwd = "dropped"

\* C7: a latency query answered by the peer of the active pad returns the
\* peer's min and max; with no active pad it succeeds with 0, 0 and live;
\* the state lock is not held while the peer is queried.
C7_LatencyRelayed ==
    /\ (query.pc = "done" /\ query.sinkpad # NoPad /\ query.answered)
           => (query.ret /\ query.min = query.peer_min /\ query.max = query.peer_max)
    /\ (query.pc = "done" /\ query.sinkpad = NoPad)
           => (query.ret /\ query.min = 0 /\ query.max = 0 /\ query.live)
    /\ query.pc \in {"peer", "peer_locked", "done"} => StateLockOwner # "query"

\* C7 witness: the peer of the active pad answered with a non-zero range.
C7_Witness ==
    /\ query.pc = "done"
    /\ query.sinkpad \in sink_pads
    /\ query.answered
    /\ query.peer_min < query.peer_max
    /\ query.max = MaxLatency

\* C8: the live flag of a delegated latency reply is the peer's live flag.
C8_LiveRelayed ==
    (query.pc = "done" /\ query.sinkpad # NoPad /\ query.answered)
        => query.live = query.peer_live

\* C9: set_active with a pad that is not in the registry changes neither
\* active_sinkpad nor switched_pad.
C9_UnknownPadIgnored ==
    (/\ ctl.op = "set_property"
     /\ ctl.pad # NoPad
     /\ ctl.pad \notin sink_pads)
        => /\ active_sinkpad = ctl.old_active
           /\ switched_pad = ctl.old_switched

\* C9 witness: set_active was called with a released pad while another pad
\* is active and its switch has been consumed.
C9_Witness ==
    /\ ctl.op = "set_property"
    /\ ctl.pad # NoPad
    /\ ctl.pad \notin sink_pads
    /\ ctl.pad <= pad_serial
    /\ active_sinkpad \in sink_pads
    /\ ~switched_pad

\* C10: request_new_pad makes the new pad active and sets switched_pad
\* exactly when no pad was active; otherwise it leaves both unchanged; the
\* new pad is in the registry.
C10_FirstPadBecomesActive ==
    ctl.op = "request_new_pad"
        => /\ ctl.pad \in sink_pads
           /\ IF ctl.old_active = NoPad
              THEN active_sinkpad = ctl.pad /\ switched_pad
              ELSE /\ active_sinkpad = ctl.old_active
                   /\ switched_pad = ctl.old_switched

\* C10 witness: a pad was requested while no pad was active and the switch
\* flag was clear.
C10_Witness ==
    /\ ctl.op = "request_new_pad"
    /\ ctl.old_active = NoPad
    /\ ~ctl.old_switched
    /\ active_sinkpad = ctl.pad
    /\ switched_pad

\* The snapshot of p found p active and the switch flag set.
ActiveSwitchedSnapshot(p) ==
    SnapshotStep(p) /\ task'[p].is_active /\ task'[p].switched_pad

C12_PushedFromActivePad ==
    [][\A p \in PadIds : BufferPushStep(p) => active_sinkpad = p]_vars

\* handle_item of pad p returns in this step.
ReturnStep(p) == task[p].pc # "ret" /\ task'[p].pc = "ret"

\* C13: the handle_item of a buffer whose pad is not active returns Ok and
\* pushes nothing, also with a time segment and a flush-start during the call.
C13_InactiveReturnsOk ==
    [][\A p \in PadIds :
          (ReturnStep(p) /\ ~task[p].is_active)
              => task'[p] = Returned("Ok", "dropped", FALSE)]_vars

\* C14: once a push_event of a collected sticky event has failed, the buffer
\* of that handle_item is not pushed.
C14_StickyFailureStopsItem ==
    [][\A p \in PadIds : BufferPushStep(p) => ~task[p].refused]_vars

\* C15: a buffer of the active pad that owes a replay (send_sticky or
\* switched_pad at its snapshot) collects the pad's sticky events and clears
\* both flags in that snapshot; any other buffer collects nothing and leaves
\* the flags alone; the collected events are pushed one by one in the order
\* the pad stored them, all of them before the buffer; handle_item never
\* sets a flag.
C15_StickyReplay ==
    [][\A p \in PadIds :
          /\ (SnapshotStep(p) /\ active_sinkpad = p
                  /\ (inner[p].send_sticky \/ switched_pad))
                 => /\ task'[p].stickies = sticky[p]
                    /\ ~inner'[p].send_sticky
                    /\ ~switched_pad'
          /\ (SnapshotStep(p)
                  /\ ~(active_sinkpad = p /\ (inner[p].send_sticky \/ switched_pad)))
                 => /\ task'[p].stickies = <<>>
                    /\ inner'[p].send_sticky = inner[p].send_sticky
                    /\ switched_pad' = switched_pad
          /\ StickyPushStep(p)
                 => /\ task'[p].sent = task[p].sent + 1
                    /\ task'[p].out = SubSeq(task[p].stickies, 1, task'[p].sent)
          /\ BufferPushStep(p) => task[p].out = task[p].stickies
          /\ (task'[p] # task[p] /\ task[p].pc # "idle")
                 => /\ inner'[p].send_sticky = inner[p].send_sticky
                    /\ switched_pad' = switched_pad]_vars

\* C15 witness: both sticky events of the pad were replayed in order and the
\* buffer is about to be pushed.
C15_Witness ==
    \E p \in PadIds :
        /\ task[p].pc = "push"
        /\ Len(task[p].stickies) = 2
        /\ task[p].out = sticky[p]
        /\ ~inner[p].send_sticky
        /\ ~switched_pad

\* C16: while a handle_item waits for the running time of its buffer, the
\* sticky events it collected have already been pushed to the src pad.
C16_StickiesBeforeWait ==
    \A p \in PadIds :
        task[p].pc = "delay" => task[p].sent = Len(task[p].stickies)

\* The step is a flush-start received on pad p while p's stored handle is
\* that of its wait in progress: the handle is taken, nothing else changes
\* but the wait of p.
FlushStartStep(p) ==
    /\ p \in sink_pads
    /\ inner[p].abort_handle = "live"
    /\ inner' = [inner EXCEPT ![p].abort_handle = "none"]
    /\ \A q \in PadIds \ {p} : task'[q] = task[q]
    /\ UNCHANGED <<active_sinkpad, switched_pad, pad_serial, sink_pads, sticky,
                   running_time>>

\* C17: a wait becomes aborted only in a flush-start step of its own pad,
\* taken after the handle of that wait was stored; a handle_item returns
\* Flushing only after its wait was aborted.
C17_OnlyOwnFlushCancels ==
    [][\A p \in PadIds :
          /\ (~task[p].aborted /\ task'[p].aborted) => FlushStartStep(p)
          /\ (ReturnStep(p) /\ task'[p].ret = "Flushing") => task[p].aborted]_vars

\* C17 witness: a wait is still in progress, not aborted, after set_active
\* made another pad the active pad and the waiting pad had been active.
C17_Witness ==
    \E p \in sink_pads, q \in sink_pads :
        /\ p # q
        /\ task[q].pc = "delay"
        /\ task[q].is_active
        /\ ~task[q].aborted
        /\ inner[q].abort_handle = "live"
        /\ active_sinkpad = p
        /\ is_time_segment(inner[p].segment)

\* The wait of pad p is outstanding: started, neither completed nor aborted.
WaitOutstanding(p) == task[p].pc \in {"sync", "delay"} /\ ~task[p].aborted

\* C18: a pad has one handle_item, so one wait, at a time; a stored handle
\* of a wait in progress belongs to the outstanding wait of the pad, and
\* while a wait is outstanding the stored handle, if any, is its own; every
\* new wait stores its handle whatever was stored before.
C18_OneWaitPerPad ==
    [][\A p \in PadIds :
          /\ inner[p].abort_handle = "live" => WaitOutstanding(p)
          /\ (WaitOutstanding(p) /\ inner[p].abort_handle # "none")
                 => inner[p].abort_handle = "live"
          /\ (SnapshotStep(p) /\ is_time_segment(inner[p].segment))
                 => (inner'[p].abort_handle = "live" /\ WaitOutstanding(p)')
          /\ (SnapshotStep(p) /\ ~is_time_segment(inner[p].segment))
                 => (inner'[p].abort_handle = inner[p].abort_handle
                     /\ ~WaitOutstanding(p)')]_vars

\* C18 witness: a pad is in a wait that stored its handle while another pad
\* still stores the handle of a wait that is over.
C18_Witness ==
    \E p \in sink_pads, q \in sink_pads :
        /\ WaitOutstanding(p)
        /\ task[p].pc = "delay"
        /\ inner[p].abort_handle = "live"
        /\ inner[q].abort_handle = "dead"

Threads ==
    {AppThread, QueryThread}
    \cup {TaskThread(p) : p \in PadIds} \cup {FlushThread(p) : p \in PadIds}

\* The Mutex thread t is inside lock() of.
Wants(t) ==
    IF t.kind = "task"
    THEN IF task[t.pad].pc = "lock_state" THEN StateLock
         ELSE IF task[t.pad].pc \in {"lock_inner", "ev_lock"} THEN InnerLock(t.pad)
         ELSE NoLock
    ELSE IF t.kind = "flush"
    THEN IF flush[t.pad] = "lock_inner" THEN InnerLock(t.pad) ELSE NoLock
    ELSE IF t.kind = "app"
    THEN IF app.pc = "lock_state" THEN StateLock
         ELSE IF app.pc = "lock_pads" THEN PadsLock
         ELSE NoLock
    ELSE IF query.pc = "lock_state" THEN StateLock ELSE NoLock

Held(t) ==
    {l \in {StateLock, PadsLock} \cup {InnerLock(p) : p \in PadIds} : Owner(l) = t}

Blocked(t) == Wants(t) # NoLock /\ Owner(Wants(t)) # NoThread

\* Following who waits for whom from t ends, within n threads, at a thread
\* that is not waiting: t is not in and not behind a cycle of waiting threads.
RECURSIVE CanProceed(_, _)
CanProceed(t, n) ==
    IF ~Blocked(t) THEN TRUE
    ELSE IF n = 0 THEN FALSE
    ELSE CanProceed(Owner(Wants(t)), n - 1)

\* The thread is at an await, or inside a push or a query to a peer element.
Suspended(t) ==
    IF t.kind = "task" THEN task[t.pad].pc \in {"sync", "delay", "stickies", "push"}
    ELSE IF t.kind = "flush" THEN flush[t.pad] = "push"
    ELSE IF t.kind = "query" THEN query.pc = "peer"
    ELSE FALSE

\* C19: the handlers cannot deadlock on the three Mutexes.  No thread is in
\* or behind a cycle of threads each waiting for a Mutex the next one holds
\* (a thread waiting for a Mutex it holds is such a cycle); state is
\* locked before pads and before inner, so a thread entering state.lock()
\* holds nothing; no thread holds the inner records of two pads; and no
\* Mutex is held at an await or across a push or query to a peer.
C19_NoDeadlock ==
    \A t \in Threads :
        /\ CanProceed(t, Cardinality(Threads))
        /\ Wants(t) = StateLock => Held(t) = {}
        /\ Cardinality({l \in Held(t) : l.kind = "inner"}) <= 1
        /\ Suspended(t) => Held(t) = {}

\* A streaming task holds state and waits for its inner record, which the
\* flush-start of the same pad holds.
C19_Witness ==
    \E p \in PadIds :
        /\ task[p].pc = "lock_inner"
        /\ Held(TaskThread(p)) = {StateLock}
        /\ Owner(InnerLock(p)) = FlushThread(p)

AllOk(rets) == \A i \in 1..Len(rets) : rets[i] = "Ok"

Increasing(seq) == \A i \in 1..Len(seq), j \in 1..Len(seq) : i < j => seq[i] < seq[j]

IsPrefix(s, t) == Len(s) <= Len(t) /\ \A i \in 1..Len(s) : s[i] = t[i]

ListResult(l) ==
    /\ Increasing(l.pushed)
    /\ \A i \in 1..Len(l.pushed) : l.pushed[i] <= Len(l.rets)
    /\ l.pc = "run" => AllOk(l.rets)
    /\ l.pc = "ret" =>
          /\ AllOk(SubSeq(l.rets, 1, Len(l.rets) - 1))
          /\ IF AllOk(l.rets)
             THEN Len(l.rets) = l.len /\ l.ret = "Ok"
             ELSE l.ret = l.rets[Len(l.rets)]

\* C20: sink_chain_list handles the buffers of a list in list order, one
\* handle_item at a time; the first handle_item that fails ends the list,
\* its error is the result of the list and no later buffer is handled or
\* pushed; buffers pushed before stay pushed; a list without a failure
\* is handled to its end and its result is Ok.
C20_ListStopsAtFirstFailure ==
    /\ [](\A p \in PadIds : ListResult(list[p]))
    /\ [][\A p \in PadIds :
             /\ list[p].pc # "idle" /\ list'[p].pc # "idle" =>
                   /\ IsPrefix(list[p].pushed, list'[p].pushed)
                   /\ IsPrefix(list[p].rets, list'[p].rets)
             /\ list[p].pc = "ret" /\ list'[p].pc = "ret" => list'[p] = list[p]]_vars

\* A list of three buffers: the first was pushed and returned Ok, the
\* second failed, the list ended with that error and the third was never
\* handled.
C20_Witness ==
    \E p \in PadIds :
        /\ list[p].pc = "ret"
        /\ list[p].len = 3
        /\ Len(list[p].rets) = 2
        /\ list[p].pushed # <<>>
        /\ list[p].pushed[1] = 1
        /\ list[p].ret # "Ok"

\* C21: a pushed buffer leaves with DISCONT added only if the snapshot of
\* its own handle_item read switched_pad = true on the active pad; every
\* other pushed buffer leaves with the flag it arrived with.  The snapshot
\* that reads switched_pad = true on the active pad clears it, and no step
\* of a streaming task sets it again, so one setting of switched_pad marks
\* at most one buffer.
C21_DiscontOnlyFromOwnSnapshot ==
    [][/\ \A p \in PadIds :
              /\ BufferPushStep(p) =>
                    (task'[p].fwd = "discont") =
                        (task'[p].discont \/ (task[p].switched_pad /\ task[p].is_active))
              /\ ActiveSwitchedSnapshot(p) => ~switched_pad'
       /\ (~switched_pad /\ switched_pad') => task' = task]_vars

\* C21 witness: a buffer that arrived without DISCONT was pushed with it,
\* and switched_pad is clear again.
C21_Witness ==
    \E p \in PadIds :
        /\ task[p].pc = "ret"
        /\ task[p].fwd = "discont"
        /\ ~task[p].discont
        /\ ~switched_pad

\* C22: active_sinkpad is none or a pad of the registry, in every reachable
\* state.
C22_ActiveInRegistry == active_sinkpad = NoPad \/ active_sinkpad \in sink_pads

\* C23: with the clock going on, every push returning and every task that
\* can make progress being polled, each handle_item returns.  A wait is
\* entered only when the clock has a running time that is before the
\* buffer's; its deadline is the buffer's running time; a wait that is
\* aborted or whose deadline the clock has reached ends.
C23_HandleItemReturns ==
    /\ \A p \in PadIds : (task[p].pc # "idle") ~> (task[p].pc = "ret")
    /\ \A p \in PadIds :
           (task[p].pc = "delay" /\ wait_over(task[p])) ~> (task[p].pc # "delay")
    /\ [][\A p \in PadIds :
             (task[p].pc # "delay" /\ task'[p].pc = "delay") =>
                 /\ running_time # NoTime
                 /\ task[p].rtime # NoTime
                 /\ running_time < task[p].rtime
                 /\ task'[p].deadline = task[p].rtime]_vars

\* C23 witness: a task waits and the clock has reached the running time of
\* its buffer, no flush-start having aborted the wait.
C23_Witness ==
    \E p \in PadIds :
        /\ task[p].pc = "delay"
        /\ ~task[p].aborted
        /\ task[p].deadline > 0
        /\ running_time = task[p].deadline

\* C24: the flag of panic_to_error is a one-way latch.  It is set only by
\* an operation whose body panicked and is never cleared; an operation
\* that loads the flag set posts an error and returns the fallback without
\* running its body, one that loads it clear runs its body; an operation
\* whose body panicked posts an error, has set the flag and returns the
\* fallback; one whose body returned posts nothing and returns the body's
\* result.
C24_PanicLatch ==
    /\ [](\A c \in Callers :
             guarded[c].pc = "ret" =>
                 IF ~guarded[c].ran
                 THEN panicked /\ guarded[c].posted /\ guarded[c].ret = Fallback
                 ELSE IF guarded[c].failed
                 THEN panicked /\ guarded[c].posted /\ guarded[c].ret = Fallback
                 ELSE ~guarded[c].posted /\ guarded[c].ret = guarded[c].body)
    /\ [][/\ panicked => panicked'
          /\ (~panicked /\ panicked') =>
                 \E c \in Callers : guarded[c].failed /\ guarded[c].pc = "caught"
          /\ \A c \in Callers :
                 (guarded[c].pc = "idle" /\ guarded'[c].pc # "idle") =>
                     guarded'[c].pc = (IF panicked THEN "latched" ELSE "body")
          /\ \A c \in Callers :
                 (~guarded[c].ran /\ guarded'[c].ran) => guarded[c].pc = "body"]_vars

\* C24 witness: after a caught panic, a later operation returned the
\* fallback with an error posted and without running its body.
C24_Witness ==
    \E c \in Callers :
        /\ panicked
        /\ guarded[c].pc = "ret"
        /\ ~guarded[c].ran
        /\ guarded[c].posted
        /\ guarded[c].ret = Fallback

====
